---- MODULE Spec2Model ----
(***************************************************************************)
(* Funding-rate arbitrage pipeline: the time-aligned differential engine   *)
(* (calculate_FR_diff_v3.py), its incremental range planner, the return    *)
(* aggregator (calculate_FR_return_list.py / _v2.py) and the ranking       *)
(* engine (ranking_engine.py, strategy_ranking_v2.py).                     *)
(*                                                                         *)
(* Timestamps are whole hours counted from an epoch; a calendar date is    *)
(* ts \div HoursPerDay.  Rates are integers in units of 1e-9, so that the  *)
(* 8-decimal rounding of the persistence step is a real operation.         *)
(***************************************************************************)
EXTENDS Integers, Sequences, FiniteSets, TLC

VARIABLES
    history,        \* table funding_rate_history: set of observation rows
    diffTable,      \* table funding_rate_diff: key -> stored columns
    symbolData,     \* symbol_data argument of the last calculate_diff_for_symbol call
    exchangePairs,  \* exchange_pairs argument of that call
    diffRows,       \* DataFrame returned by that call (sequence of rows)
    invocations,    \* main() processes running side by side: position and windows of each
    pc,             \* the operation that ran last, with its arguments
    sourceInfo,     \* range_info['source'] seen by calculate_processing_ranges
    resultInfo,     \* range_info['result'] seen by calculate_processing_ranges
    ranges,         \* processing_ranges returned by calculate_processing_ranges
    fr,             \* Differential frame of one trading pair: date -> hourly Diff_AB values
    target,         \* target_date of the last calculate_returns call
    metric,         \* dict returned by calculate_returns (or NULL for None)
    returnMetrics,  \* table return_metrics: key -> stored columns
    crossSection,   \* one date's ReturnMetric rows, in input order
    strategyName,   \* strategy the RankingEngine was built with
    ranked,         \* ranked frame of the latest calculate_daily_ranking run
    prevRanked,     \* ranked frame of the run before it
    runs,           \* number of ranking runs done on crossSection
    tiePriority,    \* what the installed argsort(kind='quicksort') does with equal keys
    rankingTable    \* table strategy_ranking: key -> stored columns

vars == <<history, diffTable, symbolData, exchangePairs, diffRows, invocations, pc,
          sourceInfo, resultInfo, ranges, fr, target, metric, returnMetrics,
          crossSection, strategyName, ranked, prevRanked, runs, tiePriority,
          rankingTable>>

diffVars == <<history, diffTable, symbolData, exchangePairs, diffRows, invocations>>
planVars == <<sourceInfo, resultInfo, ranges>>
retVars  == <<fr, target, metric, returnMetrics>>
rankVars == <<crossSection, strategyName, ranked, prevRanked, runs, tiePriority,
             rankingTable>>

\* None / NaN / SQL NULL is the empty tuple, a present value v is <<v>>
NULL == <<>>
Some(v) == <<v>>

\* hours per calendar date (24 in the program; scaled down, as no operation
\* depends on the number)
HoursPerDay == 3

Date(ts) == ts \div HoursPerDay

Min(S) == CHOOSE x \in S : \A y \in S : x <= y
Max(S) == CHOOSE x \in S : \A y \in S : x >= y

RECURSIVE SumSeq(_)
SumSeq(s) == IF s = <<>> THEN 0 ELSE Head(s) + SumSeq(Tail(s))

RECURSIVE Flatten(_)
Flatten(ss) == IF ss = <<>> THEN <<>> ELSE Head(ss) \o Flatten(Tail(ss))

(***************************************************************************)
(* Differential engine                                                     *)
(***************************************************************************)
Symbols   == {"BTCUSDT", "ETHUSDT"}
Exchanges == {"binance", "bybit", "okx"}
Rates     == {NULL, Some(-14), Some(10)}
MaxHour   == 3
MaxObs    == 3
Hours     == 0 .. MaxHour

\* --exchanges argument values
ExchangeLists == { <<"binance", "bybit">>, <<"binance", "bybit", "okx">> }

\* fetch layer: INSERT ... ON CONFLICT(timestamp_utc, symbol, exchange) DO UPDATE
SaveFundingRates(tbl, ts, sym, ex, rate) ==
    { o \in tbl : ~(o.ts = ts /\ o.symbol = sym /\ o.exchange = ex) }
        \cup { [ts |-> ts, symbol |-> sym, exchange |-> ex, rate |-> rate] }

\* get_fr_history: WHERE symbol = ? AND exchange IN (...) AND DATE(ts) >= ? AND DATE(ts) <= ?
GetFrHistory(sym, exchanges, startDate, endDate) ==
    { o \in history :
        /\ (sym # NULL => o.symbol = sym[1])
        /\ \E i \in DOMAIN exchanges : exchanges[i] = o.exchange
        /\ (startDate # NULL => Date(o.ts) >= startDate[1])
        /\ (endDate # NULL => Date(o.ts) <= endDate[1]) }

\* main: for i in range(len(exchanges)): for j in range(i + 1, len(exchanges))
PairsOf(exchanges) ==
    LET n == Len(exchanges)
        RowOf(i) == [k \in 1 .. (n - i) |-> <<exchanges[i], exchanges[i + k]>>]
    IN  Flatten([i \in 1 .. n |-> RowOf(i)])

\* pivot_table(index=timestamp, columns=exchange, aggfunc='first'): entries whose
\* value is NaN are dropped, so a column exists only for an exchange with a
\* non-null rate
PivotColumns(data) == { o.exchange : o \in { p \in data : p.rate # NULL } }

PivotValue(data, ts, ex) ==
    LET hit == { o \in data : o.ts = ts /\ o.exchange = ex /\ o.rate # NULL }
    IN  IF hit = {} THEN NULL ELSE (CHOOSE o \in hit : TRUE).rate

\* the per-hour NULL rule of calculate_diff_for_symbol
DiffWrongSign(a, b) ==
    IF a # NULL /\ b # NULL THEN Some(a[1] - b[1])
    ELSE IF a # NULL THEN a
    ELSE IF b # NULL THEN b
    ELSE NULL

Diff(a, b) ==
    IF a # NULL /\ b # NULL THEN Some(a[1] - b[1])
    ELSE IF a # NULL /\ b = NULL THEN a
    ELSE IF a = NULL /\ b # NULL THEN Some(0 - b[1])
    ELSE NULL

\* pd.date_range(start=min, end=max, freq='h')
TimeRangeSkipLast(data) ==
    LET lo == Min({ o.ts : o \in data })
        hi == Max({ o.ts : o \in data })
    IN  [i \in 1 .. (hi - lo) |-> lo + i - 1]

TimeRange(data) ==
    LET lo == Min({ o.ts : o \in data })
        hi == Max({ o.ts : o \in data })
    IN  [i \in 1 .. (hi - lo + 1) |-> lo + i - 1]

PairRows(data, sym, a, b) ==
    LET tr == TimeRange(data)
    IN  [i \in DOMAIN tr |->
            LET ra == PivotValue(data, tr[i], a)
                rb == PivotValue(data, tr[i], b)
            IN  [ts |-> tr[i], symbol |-> sym, exchange_a |-> a, exchange_b |-> b,
                 funding_rate_a |-> ra, funding_rate_b |-> rb, diff_ab |-> Diff(ra, rb)]]

CalculateDiffForSymbol(data, pairs) ==
    IF data = {} THEN <<>>
    ELSE LET sym  == (CHOOSE o \in data : TRUE).symbol
             cols == PivotColumns(data)
         IN  Flatten([k \in DOMAIN pairs |->
                        IF pairs[k][1] \notin cols \/ pairs[k][2] \notin cols
                        THEN <<>>
                        ELSE PairRows(data, sym, pairs[k][1], pairs[k][2])])

\* lexicographic position of a symbol (ORDER BY timestamp_utc, symbol, exchange)
SymbolRank(sym) == IF sym = "BTCUSDT" THEN 1 ELSE 2

\* df['symbol'].unique(): symbols in order of first appearance in the ordered frame
RECURSIVE UniqueSymbols(_)
UniqueSymbols(df) ==
    IF df = {} THEN <<>>
    ELSE LET FirstSeen(sy) == Min({ o.ts : o \in { p \in df : p.symbol = sy } }) * (Cardinality(Symbols) + 1) + SymbolRank(sy)
             syms == { o.symbol : o \in df }
             s1   == CHOOSE sy \in syms : \A other \in syms : FirstSeen(sy) <= FirstSeen(other)
         IN  <<s1>> \o UniqueSymbols({ o \in df : o.symbol # s1 })

CalculateFundingRateDifferencesV3(df, pairs) ==
    LET syms == UniqueSymbols(df)
    IN  Flatten([k \in DOMAIN syms |->
                    CalculateDiffForSymbol({ o \in df : o.symbol = syms[k] }, pairs)])

\* str(row['funding_rate_a']): the TEXT form of a rate
Str(x) == <<"str", x>>

\* round(float(diff_ab), 8): to the nearest multiple of 10 units of 1e-9, ties to even
Round8(x) ==
    LET q == x \div 10
        r == x % 10
    IN  IF r < 5 THEN 10 * q
        ELSE IF r > 5 THEN 10 * (q + 1)
        ELSE IF q % 2 = 0 THEN 10 * q ELSE 10 * (q + 1)

\* the tuple with NaN legs turned into 0.0, as insert_funding_rate_diff does
InsertRowNanAsZero(r) ==
    [funding_rate_a |-> IF r.funding_rate_a = NULL THEN Str(0) ELSE Str(r.funding_rate_a[1]),
     funding_rate_b |-> IF r.funding_rate_b = NULL THEN Str(0) ELSE Str(r.funding_rate_b[1]),
     diff_ab        |-> IF r.diff_ab = NULL THEN 0 ELSE Round8(r.diff_ab[1])]

\* the tuple insert_fr_diff_with_nulls builds for one row
InsertRow(r) ==
    [funding_rate_a |-> IF r.funding_rate_a = NULL THEN NULL ELSE Str(r.funding_rate_a[1]),
     funding_rate_b |-> IF r.funding_rate_b = NULL THEN NULL ELSE Str(r.funding_rate_b[1]),
     diff_ab        |-> IF r.diff_ab = NULL THEN 0 ELSE Round8(r.diff_ab[1])]

\* uniqueness key of funding_rate_diff
DiffKey(r) == <<r.ts, r.symbol, r.exchange_a, r.exchange_b>>

\* ON CONFLICT DO UPDATE SET diff_ab = diff_ab + excluded.diff_ab
AccumulateOnConflict(tbl, r) ==
    LET new == InsertRow(r)
    IN  [k \in DOMAIN tbl \cup {DiffKey(r)} |->
            IF k # DiffKey(r) THEN tbl[k]
            ELSE IF k \in DOMAIN tbl
                 THEN [new EXCEPT !.diff_ab = tbl[k].diff_ab + new.diff_ab]
                 ELSE new]

\* INSERT OR REPLACE INTO funding_rate_diff, one row
InsertOrReplace(tbl, r) ==
    [k \in DOMAIN tbl \cup {DiffKey(r)} |-> IF k = DiffKey(r) THEN InsertRow(r) ELSE tbl[k]]

\* save_fr_diff -> insert_fr_diff_with_nulls: executemany over the frame
RECURSIVE SaveFrDiff(_, _)
SaveFrDiff(tbl, rows) ==
    IF rows = <<>> THEN tbl
    ELSE SaveFrDiff(InsertOrReplace(tbl, Head(rows)), Tail(rows))

EmptyTable == [k \in {} |-> NULL]

(***************************************************************************)
(* Initial values of the variables a specification does not use            *)
(***************************************************************************)
DiffIdle ==
    /\ history = {} /\ diffTable = EmptyTable
    /\ symbolData = {} /\ exchangePairs = <<>> /\ diffRows = <<>>
    /\ invocations = <<>>
PlanIdle == sourceInfo = NULL /\ resultInfo = NULL /\ ranges = <<>>
RetIdle  == fr = <<>> /\ target = 0 /\ metric = NULL /\ returnMetrics = EmptyTable
RankIdle ==
    /\ crossSection = <<>> /\ strategyName = "" /\ ranked = <<>>
    /\ prevRanked = <<>> /\ runs = 0 /\ tiePriority = <<>>
    /\ rankingTable = EmptyTable

(***************************************************************************)
(* SpecDiff: calculate_diff_for_symbol applied to the observations of one  *)
(* symbol                                                                  *)
(***************************************************************************)
DiffSymbol == "BTCUSDT"

\* fetch_and_save_fr -> save_funding_rates, one observation
Ingest(ts, sym, ex, rate, cap) ==
    /\ pc[1] \in {"init", "ingest"}
    /\ Cardinality(SaveFundingRates(history, ts, sym, ex, rate)) <= cap
    /\ history' = SaveFundingRates(history, ts, sym, ex, rate)
    /\ pc' = <<"ingest">>
    /\ UNCHANGED <<diffTable, symbolData, exchangePairs, diffRows, invocations>>
    /\ UNCHANGED <<planVars, retVars, rankVars>>

\* calculate_diff_for_symbol(symbol_data, exchange_pairs) on the rows main
\* would hand it for --exchanges exs
CallCalculateDiffForSymbol(exs) ==
    /\ pc[1] \in {"init", "ingest"}
    /\ LET data == GetFrHistory(Some(DiffSymbol), exs, NULL, NULL)
       IN  /\ symbolData' = data
           /\ exchangePairs' = PairsOf(exs)
           /\ diffRows' = CalculateDiffForSymbol(data, PairsOf(exs))
    /\ pc' = <<"calculate_diff_for_symbol">>
    /\ UNCHANGED <<history, diffTable, invocations>>
    /\ UNCHANGED <<planVars, retVars, rankVars>>

InitDiff == DiffIdle /\ PlanIdle /\ RetIdle /\ RankIdle /\ pc = <<"init">>

NextDiff ==
    \/ \E ts \in Hours, ex \in Exchanges, rate \in Rates :
          Ingest(ts, DiffSymbol, ex, rate, MaxObs)
    \/ \E exs \in ExchangeLists : CallCalculateDiffForSymbol(exs)

SpecDiff == InitDiff /\ [][NextDiff]_vars

(***************************************************************************)
(* SpecEngine: main() of calculate_FR_diff_v3.py with --start-date and     *)
(* --end-date, run any number of times once the observations are loaded    *)
(***************************************************************************)
Dates == Date(0) .. Date(MaxHour)
MaxReruns == 2
EngineMaxObs == 2

MainDateRange(symArg, exs, startDate, endDate) ==
    /\ pc[1] \in {"ingest", "main"}
    /\ LET df      == GetFrHistory(symArg, exs, Some(startDate), Some(endDate))
           diff_df == CalculateFundingRateDifferencesV3(df, PairsOf(exs))
       IN  diffTable' = SaveFrDiff(diffTable, diff_df)
    /\ pc' = <<"main", symArg, exs, startDate, endDate,
               IF pc[1] = "main" /\ <<pc[2], pc[3], pc[4], pc[5]>> = <<symArg, exs, startDate, endDate>>
               THEN IF pc[6] < MaxReruns THEN pc[6] + 1 ELSE MaxReruns
               ELSE 1>>
    /\ UNCHANGED <<history, symbolData, exchangePairs, diffRows, invocations>>
    /\ UNCHANGED <<planVars, retVars, rankVars>>

InitEngine == InitDiff

NextEngine ==
    \/ \E ts \in Hours, ex \in Exchanges, rate \in Rates :
          Ingest(ts, DiffSymbol, ex, rate, EngineMaxObs)
    \/ \E exs \in ExchangeLists, sd \in Dates, ed \in Dates :
          sd <= ed /\ MainDateRange(Some(DiffSymbol), exs, sd, ed)

SpecEngine == InitEngine /\ [][NextEngine]_vars

(***************************************************************************)
(* Claims on the differential engine                                       *)
(***************************************************************************)
RowsOfPair(rows, a, b) ==
    { i \in DOMAIN rows : rows[i].exchange_a = a /\ rows[i].exchange_b = b }

ObservedRate(data, ts, ex) ==
    IF \E o \in data : o.ts = ts /\ o.exchange = ex
    THEN (CHOOSE o \in data : o.ts = ts /\ o.exchange = ex).rate
    ELSE NULL

C2_NullArithmetic ==
    pc[1] = "calculate_diff_for_symbol" =>
        \A i \in DOMAIN diffRows :
            LET r == diffRows[i]
                a == ObservedRate(symbolData, r.ts, r.exchange_a)
                b == ObservedRate(symbolData, r.ts, r.exchange_b)
            IN  /\ r.funding_rate_a = a /\ r.funding_rate_b = b
                /\ (a # NULL /\ b # NULL) => r.diff_ab = Some(a[1] - b[1])
                /\ (a # NULL /\ b # NULL /\ a = b) => r.diff_ab = Some(0)
                /\ (a # NULL /\ b = NULL) => r.diff_ab = a
                /\ (a = NULL /\ b # NULL) => r.diff_ab = Some(0 - b[1])
                /\ (a = NULL /\ b = NULL) => r.diff_ab = NULL

\* one frame with a two-sided row of identical rates, a row with only the b
\* leg and a row with neither leg
C2_Witness ==
    /\ pc[1] = "calculate_diff_for_symbol"
    /\ \E i, j, k \in DOMAIN diffRows :
          /\ diffRows[i].funding_rate_a # NULL
          /\ diffRows[i].funding_rate_a = diffRows[i].funding_rate_b
          /\ diffRows[j].funding_rate_a = NULL /\ diffRows[j].funding_rate_b # NULL
          /\ diffRows[k].funding_rate_a = NULL /\ diffRows[k].funding_rate_b = NULL

\* C10: every pair of which at least one exchange has an observation gets
\* rows, and they cover exactly the hours from the earliest to the latest
\* observation of those two exchanges.
C10_PairCoverage ==
    pc[1] = "calculate_diff_for_symbol" =>
        \A k \in DOMAIN exchangePairs :
            LET a     == exchangePairs[k][1]
                b     == exchangePairs[k][2]
                obsAB == { o \in symbolData : o.exchange \in {a, b} }
                idx   == RowsOfPair(diffRows, a, b)
            IN  obsAB # {} =>
                    { diffRows[i].ts : i \in idx } =
                        Min({ o.ts : o \in obsAB }) .. Max({ o.ts : o \in obsAB })

\* C3: running main() again over the same window, symbol and exchanges, with
\* no change to the observations in between, leaves funding_rate_diff as it is.
C3_IdempotentRerun ==
    [][(pc'[1] = "main" /\ pc'[6] > 1) => diffTable' = diffTable]_vars

\* a second run over a window whose rows include a stored null-null hour
C3_Witness ==
    /\ pc[1] = "main" /\ pc[6] = 2
    /\ \E k \in DOMAIN diffTable :
          diffTable[k].funding_rate_a = NULL /\ diffTable[k].funding_rate_b = NULL
    /\ \E k \in DOMAIN diffTable : diffTable[k].funding_rate_a # NULL

(***************************************************************************)
(* Incremental range planner: calculate_processing_ranges                  *)
(***************************************************************************)
PlanDays  == 3
PlanHours == 0 .. (PlanDays * HoursPerDay - 1)

\* the MIN/MAX(timestamp_utc) pairs get_data_range_info can return
Extents == { [earliest |-> lo, latest |-> hi] : lo \in PlanHours, hi \in PlanHours }

\* (result_start - pd.Timedelta(days=1)).strftime('%Y-%m-%d')
BackfillEndSameDay(result_start) == Date(result_start)

BackfillEnd(result_start) == Date(result_start - HoursPerDay)

\* (result_end + pd.Timedelta(hours=1)).strftime('%Y-%m-%d')
AppendStartDate(result_end) == Date(result_end + 1)

\* calculate_processing_ranges without start_date/end_date; src and res are
\* NULL when the table has no rows
CalculateProcessingRanges(src, res) ==
    IF src = NULL THEN <<>>
    ELSE IF res = NULL THEN << <<Date(src[1].earliest), Date(src[1].latest)>> >>
    ELSE LET source_start == src[1].earliest
             source_end   == src[1].latest
             result_start == res[1].earliest
             result_end   == res[1].latest
             backfill == IF source_start < result_start
                         THEN << <<Date(source_start), BackfillEnd(result_start)>> >>
                         ELSE <<>>
             append   == IF source_end > result_end
                         THEN << <<AppendStartDate(result_end), Date(source_end)>> >>
                         ELSE <<>>
         IN  backfill \o append

\* hours a (start_date, end_date) window selects in get_fr_history
WindowHours(w) == { h \in PlanHours : w[1] <= Date(h) /\ Date(h) <= w[2] }

CallCalculateProcessingRanges ==
    /\ pc[1] = "init"
    /\ ranges' = CalculateProcessingRanges(sourceInfo, resultInfo)
    /\ pc' = <<"calculate_processing_ranges">>
    /\ UNCHANGED <<sourceInfo, resultInfo, diffVars, retVars, rankVars>>

InitPlan ==
    /\ DiffIdle /\ RetIdle /\ RankIdle /\ pc = <<"init">>
    /\ sourceInfo \in {NULL} \cup { Some(e) : e \in { x \in Extents : x.earliest <= x.latest } }
    /\ resultInfo \in {NULL} \cup { Some(e) : e \in { x \in Extents : x.earliest <= x.latest } }
    \* every funding_rate_diff row lies between two stored observations
    /\ resultInfo # NULL =>
          /\ sourceInfo # NULL
          /\ sourceInfo[1].earliest <= resultInfo[1].earliest
          /\ resultInfo[1].latest <= sourceInfo[1].latest
    /\ ranges = <<>>

NextPlan == CallCalculateProcessingRanges

SpecPlan == InitPlan /\ [][NextPlan]_vars

\* C4: every hour of the source extent lies in the existing result extent or
\* in a window emitted by calculate_processing_ranges.
C4_PlannerCompleteness ==
    (pc[1] = "calculate_processing_ranges" /\ sourceInfo # NULL) =>
        \A h \in sourceInfo[1].earliest .. sourceInfo[1].latest :
            \/ resultInfo # NULL /\ h \in resultInfo[1].earliest .. resultInfo[1].latest
            \/ \E i \in DOMAIN ranges : h \in WindowHours(ranges[i])

\* C5: no hour belongs to two windows emitted by one call.
C5_WindowsDisjoint ==
    pc[1] = "calculate_processing_ranges" =>
        \A i, j \in DOMAIN ranges :
            i # j => WindowHours(ranges[i]) \cap WindowHours(ranges[j]) = {}

\* a call that emitted a backfill and an append window, neither of them empty
C5_Witness ==
    /\ pc[1] = "calculate_processing_ranges"
    /\ Len(ranges) = 2
    /\ WindowHours(ranges[1]) # {} /\ WindowHours(ranges[2]) # {}

(***************************************************************************)
(* Return aggregator: calculate_returns (v1, pandas) and                   *)
(* calculate_returns_sql_optimized (v2, SQL window functions)              *)
(***************************************************************************)
MaxDay == 10
Days   == 1 .. MaxDay

RECURSIVE Pow2(_)
Pow2(n) == IF n = 0 THEN 1 ELSE 2 * Pow2(n - 1)

\* the hourly Diff_AB rows of a date that has rows: two rows whose sum 2^d
\* identifies the date in any window sum
DayRows(d) == <<Some(1), Some(Pow2(d) - 1)>>

\* the same rows around an hour whose Diff_AB is null, and a date of null hours
DayRowsWithNull(d) == <<Some(1), NULL, Some(Pow2(d) - 1)>>
DayRowsAllNull == <<NULL, NULL>>

PeriodNames == {"1d", "2d", "7d", "14d", "30d", "all"}

\* periods = {'1d': 1, '2d': 2, '7d': 7, '14d': 14, '30d': 30, 'all': len(daily_returns)}
PeriodDays(p, n) ==
    CASE p = "1d" -> 1 [] p = "2d" -> 2 [] p = "7d" -> 7
      [] p = "14d" -> 14 [] p = "30d" -> 30 [] OTHER -> n

\* a ratio num/den kept exact
Frac(num, den) == [num |-> num, den |-> den]
FracEq(x, y) == x.num * y.den = y.num * x.den
Zero == Frac(0, 1)

RECURSIVE SortAscending(_)
SortAscending(S) == IF S = {} THEN <<>> ELSE <<Min(S)>> \o SortAscending(S \ {Min(S)})

\* a sum that one null turns into NaN, filled with 0: sum(skipna=False).fillna(0)
DiffSumNaPoisons(rows) ==
    IF \E i \in DOMAIN rows : rows[i] = NULL THEN 0
    ELSE SumSeq([i \in DOMAIN rows |-> rows[i][1]])

\* ['Diff_AB'].sum() of pandas and SUM(diff_ab) of SQL: nulls are skipped, and
\* the sum over nulls only reaches the output as 0
RECURSIVE DiffSum(_)
DiffSum(rows) ==
    IF rows = <<>> THEN 0
    ELSE IF Head(rows) = NULL THEN DiffSum(Tail(rows))
    ELSE Head(rows)[1] + DiffSum(Tail(rows))

\* historical_data.groupby('Date')['Diff_AB'].sum().sort_values('Date') over
\* the rows with start <= date <= end
DailyReturns(f, start, end) ==
    LET dates == SortAscending({ d \in DOMAIN f : start <= d /\ d <= end /\ f[d] # <<>> })
    IN  [i \in DOMAIN dates |-> [date |-> dates[i], daily_return |-> DiffSum(f[dates[i]])]]

\* daily_returns.iloc[start_idx:end_idx] with start_idx = max(0, target_idx - days + 1)
PeriodData(daily, targetIdx, days) ==
    LET first == IF targetIdx - days + 1 > 1 THEN targetIdx - days + 1 ELSE 1
    IN  SubSeq(daily, first, targetIdx)

DailySum(rows) == SumSeq([i \in DOMAIN rows |-> rows[i].daily_return])

\* annualized_roi = (cumulative_return / actual_days) * 365
AnnualizedRoiPerDay(cumulative_return, actual_days) ==
    IF actual_days > 0 THEN Frac(cumulative_return, actual_days) ELSE Zero

AnnualizedRoi(cumulative_return, actual_days) ==
    IF actual_days > 0 THEN Frac(cumulative_return * 365, actual_days) ELSE Zero

\* calculate_returns(df, trading_pair, target_date)
CalculateReturns(f, t) ==
    LET daily == DailyReturns(f, 1, t)
    IN  IF daily = <<>> THEN NULL
        ELSE IF daily[Len(daily)].date # t
        THEN Some([date |-> t,
                   ret  |-> [p \in PeriodNames |-> 0],
                   roi  |-> [p \in PeriodNames |-> Zero]])
        ELSE LET targetIdx == Len(daily)
                 Data(p)   == PeriodData(daily, targetIdx, PeriodDays(p, Len(daily)))
             IN  Some([date |-> t,
                       ret  |-> [p \in PeriodNames |-> DailySum(Data(p))],
                       roi  |-> [p \in PeriodNames |->
                                   AnnualizedRoi(DailySum(Data(p)), Len(Data(p)))]])

\* calculate_returns_sql_optimized(start_date, end_date): one output row per
\* date that has rows; SUM/COUNT OVER (ORDER BY date ROWS BETWEEN k PRECEDING
\* AND CURRENT ROW)
CalculateReturnsSqlOptimized(f, start, end) ==
    LET daily == DailyReturns(f, start, end)
    IN  [i \in DOMAIN daily |->
            LET Data(p) == PeriodData(daily, i, PeriodDays(p, i))
            IN  [date |-> daily[i].date,
                 ret  |-> [p \in PeriodNames |-> DailySum(Data(p))],
                 roi  |-> [p \in PeriodNames |->
                             AnnualizedRoi(DailySum(Data(p)), Len(Data(p)))]]]

\* process_batch_data_sql_optimized: all_results[all_results['date'].isin(target_dates)]
ProcessBatchDataSqlOptimized(f, start, end, t) ==
    LET rows == SelectSeq(CalculateReturnsSqlOptimized(f, start, end), LAMBDA r : r.date = t)
    IN  IF rows = <<>> THEN NULL ELSE Some(rows[1])

CallCalculateReturns(t) ==
    /\ pc[1] = "init"
    /\ target' = t
    /\ metric' = CalculateReturns(fr, t)
    /\ pc' = <<"calculate_returns">>
    /\ UNCHANGED <<fr, returnMetrics, diffVars, planVars, rankVars>>

CallSqlOptimized(t) ==
    /\ pc[1] = "init"
    /\ target' = t
    /\ metric' = ProcessBatchDataSqlOptimized(fr, 1, MaxDay, t)
    /\ pc' = <<"calculate_returns_sql_optimized">>
    /\ UNCHANGED <<fr, returnMetrics, diffVars, planVars, rankVars>>

InitRet ==
    /\ DiffIdle /\ PlanIdle /\ RankIdle /\ pc = <<"init">>
    /\ \E present \in SUBSET Days :
          fr = [d \in Days |-> IF d \in present THEN DayRows(d) ELSE <<>>]
    /\ target = 0
    /\ metric = NULL
    /\ returnMetrics = EmptyTable

NextRet ==
    \/ \E t \in Days : CallCalculateReturns(t)
    \/ \E t \in Days : CallSqlOptimized(t)

SpecRet == InitRet /\ [][NextRet]_vars

(***************************************************************************)
(* Claims on the return aggregator                                         *)
(***************************************************************************)
ReturnCalled == pc[1] \in {"calculate_returns", "calculate_returns_sql_optimized"}

FixedPeriods == {"1d", "2d", "7d", "14d", "30d"}

\* daily_sum of a calendar date: the sum of that date's hourly diffs
DailySumOf(d) ==
    IF d \in Days
    THEN LET present == SelectSeq(fr[d], LAMBDA v : v # NULL)
         IN  SumSeq([i \in DOMAIN present |-> present[i][1]])
    ELSE 0

RECURSIVE SumOver(_)
SumOver(S) == IF S = {} THEN 0
              ELSE LET d == CHOOSE x \in S : TRUE IN DailySumOf(d) + SumOver(S \ {d})

\* dates up to the target date that have at least one Differential row
DataDates == { d \in Days : d <= target /\ fr[d] # <<>> }

\* the dates one period sums: the latest PeriodDays dates that have rows
RECURSIVE Latest(_, _)
Latest(S, n) == IF n = 0 \/ S = {} THEN {} ELSE {Max(S)} \cup Latest(S \ {Max(S)}, n - 1)

DaysUsed(p) ==
    IF target \in DataDates THEN Latest(DataDates, PeriodDays(p, Cardinality(DataDates))) ELSE {}

\* C6: for a target date that has a DailyReturn entry, return_Nd is the sum of
\* daily_sum over the N calendar days ending at the target date.
C6_TrailingCalendarDays ==
    (ReturnCalled /\ metric # NULL /\ fr[target] # <<>>) =>
        \A p \in FixedPeriods :
            metric[1].ret[p] =
                SumOver({ d \in Days : target - PeriodDays(p, 0) < d /\ d <= target })

\* C7: roi_Nd is return_Nd * 365 / actual_days_used, the number of dates
\* summed in the window; over no dates, return_Nd and roi_Nd are both 0.
C7_Annualized ==
    (ReturnCalled /\ metric # NULL) =>
        \A p \in PeriodNames :
            LET used == Cardinality(DaysUsed(p))
            IN  /\ metric[1].ret[p] = SumOver(DaysUsed(p))
                /\ used > 0 => /\ metric[1].roi[p].den # 0
                               /\ FracEq(metric[1].roi[p], Frac(metric[1].ret[p] * 365, used))
                /\ used = 0 => metric[1].ret[p] = 0 /\ metric[1].roi[p] = Zero

\* a 7-day window cut short by the start of the history, next to full 1- and
\* 2-day windows
C7_Witness ==
    /\ ReturnCalled /\ metric # NULL
    /\ Cardinality(DaysUsed("2d")) = 2
    /\ Cardinality(DaysUsed("7d")) \in 3 .. 6
    /\ metric[1].ret["7d"] # 0

\* a target date without rows after dates with rows: every window is over no dates
C7_WitnessZero ==
    /\ pc[1] = "calculate_returns" /\ metric # NULL
    /\ DataDates # {} /\ target \notin DataDates

(***************************************************************************)
(* Ranking engine: RankingEngine.calculate_final_ranking and               *)
(* generate_strategy_ranking_batch.calculate_daily_ranking                 *)
(*                                                                         *)
(* Weights are the configured decimals times 10.  A z-score is kept in     *)
(* fixed point (ZScale units); a score is an exact ratio; NaN is NULL.     *)
(***************************************************************************)
MaxPairs == 3
MaxRuns  == 2
ZScale   == 1000

TradingPair(i) == <<"pair", i>>

\* values a ROI column of return_metrics can hold (NULL: NaN)
IndicatorValues == {NULL, Some(1), Some(3)}

Indicators == {"1d_ROI", "2d_ROI"}

\* ranking_config.py, the strategies over 1d_ROI and 2d_ROI
StrategyNames == {"pure_short_term", "test_weighted_simple", "test_two_components"}

Strategy(name) ==
    CASE name = "pure_short_term" ->
            [components |-> << [name |-> "daily_focus", indicators |-> <<"1d_ROI", "2d_ROI">>,
                                weights |-> <<8, 2>>, normalize |-> TRUE] >>,
             final_combination |-> [scores |-> <<"daily_focus">>, weights |-> <<10>>]]
      [] name = "test_weighted_simple" ->
            [components |-> << [name |-> "weighted_simple", indicators |-> <<"1d_ROI", "2d_ROI">>,
                                weights |-> <<7, 3>>, normalize |-> FALSE] >>,
             final_combination |-> [scores |-> <<"weighted_simple">>, weights |-> <<10>>]]
      [] OTHER ->
            [components |-> << [name |-> "comp_1d", indicators |-> <<"1d_ROI">>,
                                weights |-> <<10>>, normalize |-> FALSE],
                               [name |-> "comp_2d", indicators |-> <<"2d_ROI">>,
                                weights |-> <<10>>, normalize |-> FALSE] >>,
             final_combination |-> [scores |-> <<"comp_1d", "comp_2d">>, weights |-> <<6, 4>>]]

\* largest r with r * r <= n, by bisection of lo..hi
RECURSIVE ISqrtIn(_, _, _)
ISqrtIn(n, lo, hi) ==
    IF hi - lo <= 1 THEN lo
    ELSE LET mid == (lo + hi) \div 2
         IN  IF mid * mid <= n THEN ISqrtIn(n, mid, hi) ELSE ISqrtIn(n, lo, mid)
ISqrt(n) == ISqrtIn(n, 0, IF n < 46340 THEN n + 1 ELSE 46341)

\* indicator_data.fillna(0)
FillNa(v) == IF v = NULL THEN 0 ELSE v[1]

Column(df, ind) == [i \in DOMAIN df |-> FillNa(df[i].values[ind])]

\* df.columns, the indicator columns of the frame
Columns(df) == DOMAIN df[1].values

\* raise ValueError(f"缺少指標: {missing_indicators}")
ValueError == <<"ValueError", "missing_indicators">>
Raised(x) == Len(x) = 2

\* (x - mean) / std with the sample standard deviation (ddof = 1): NaN for a
\* single row, 0 when the deviation is 0
ZScore(col, i) ==
    LET n   == Len(col)
        dev == [j \in DOMAIN col |-> n * col[j] - SumSeq(col)]
        q   == SumSeq([j \in DOMAIN col |-> dev[j] * dev[j]])
    IN  IF n = 1 THEN NULL
        ELSE IF q = 0 THEN Some(0)
        ELSE LET mag == ISqrt((dev[i] * dev[i] * (n - 1) * ZScale * ZScale) \div q)
             IN  Some(IF dev[i] < 0 THEN 0 - mag ELSE mag)

\* the value of one indicator for row i as the weighted sum sees it
IndicatorData(df, comp, ind, i) ==
    IF comp.normalize THEN ZScore(Column(df, ind), i) ELSE Some(Column(df, ind)[i])

\* the weighted sum without weights = weights / weights.sum(): the configured
\* decimals, which are the model's weights over 10, are used as they are
CalculateComponentScoreRawWeights(df, comp, i) ==
    IF \E k \in DOMAIN comp.indicators : comp.indicators[k] \notin Columns(df)
    THEN ValueError
    ELSE LET vals == [k \in DOMAIN comp.indicators |->
                        IndicatorData(df, comp, comp.indicators[k], i)]
         IN  IF \E k \in DOMAIN vals : vals[k] = NULL THEN NULL
             ELSE Some(Frac(SumSeq([k \in DOMAIN vals |-> vals[k][1] * comp.weights[k]]),
                            10))

\* calculate_component_score: sum of indicator * weight / weights.sum(), for row i
CalculateComponentScore(df, comp, i) ==
    IF \E k \in DOMAIN comp.indicators : comp.indicators[k] \notin Columns(df)
    THEN ValueError
    ELSE LET vals == [k \in DOMAIN comp.indicators |->
                        IndicatorData(df, comp, comp.indicators[k], i)]
         IN  IF \E k \in DOMAIN vals : vals[k] = NULL THEN NULL
             ELSE Some(Frac(SumSeq([k \in DOMAIN vals |-> vals[k][1] * comp.weights[k]]),
                            SumSeq(comp.weights)))

\* try: score = calculate_component_score(...) except Exception: np.zeros(len(df))
ComponentScoreOrZeros(df, comp, i) ==
    LET score == CalculateComponentScore(df, comp, i)
    IN  IF Raised(score) THEN Some(Zero) ELSE score

RECURSIVE Product(_)
Product(s) == IF s = <<>> THEN 1 ELSE Head(s) * Product(Tail(s))

\* final_score += component_scores[score_name] * weight, weights normalized to sum 1
FinalScore(df, strat, i) ==
    LET comps   == strat.components
        scores  == [c \in DOMAIN comps |-> ComponentScoreOrZeros(df, comps[c], i)]
        w       == strat.final_combination.weights
    IN  IF \E c \in DOMAIN scores : scores[c] = NULL THEN NULL
        ELSE LET dens == [c \in DOMAIN scores |-> scores[c][1].den]
             IN  Some(Frac(SumSeq([c \in DOMAIN scores |->
                                     scores[c][1].num * w[c] * (Product(dens) \div dens[c])]),
                           SumSeq(w) * Product(dens)))

\* order of two rows with the same key under argsort(kind='quicksort')
TieBeforePerRun(i, j) ==
    IF runs % 2 = 0 THEN i < j ELSE (i % MaxPairs) < (j % MaxPairs)

TieBefore(i, j) == tiePriority[i] < tiePriority[j]

\* df.sort_values('final_ranking_score', ascending=False): descending on the
\* key, NaN keys last in their input order
RECURSIVE SortFinite(_, _)
SortFinite(rows, idx) ==
    IF idx = {} THEN <<>>
    ELSE LET best == CHOOSE i \in idx : \A j \in idx \ {i} :
                        \/ rows[i].final_ranking_score[1].num > rows[j].final_ranking_score[1].num
                        \/ /\ rows[i].final_ranking_score[1].num = rows[j].final_ranking_score[1].num
                           /\ TieBefore(i, j)
         IN  <<rows[best]>> \o SortFinite(rows, idx \ {best})

SortValuesDescending(rows) ==
    SortFinite(rows, { i \in DOMAIN rows : rows[i].final_ranking_score # NULL })
        \o SelectSeq(rows, LAMBDA r : r.final_ranking_score = NULL)

\* calculate_final_ranking(df)
CalculateFinalRanking(df, strat) ==
    SortValuesDescending([i \in DOMAIN df |->
        [Trading_Pair |-> df[i].Trading_Pair,
         final_ranking_score |-> FinalScore(df, strat, i)]])

\* ranked_df['Rank'] = range(1, len(ranked_df) + 1)
RankZeroBased(position) == position - 1

Rank(position) == position

\* calculate_daily_ranking(daily_df)
CalculateDailyRanking(df, strat) ==
    LET sorted == SortValuesDescending(CalculateFinalRanking(df, strat))
    IN  [i \in DOMAIN sorted |->
            [Trading_Pair |-> sorted[i].Trading_Pair,
             final_ranking_score |-> sorted[i].final_ranking_score,
             Rank |-> Rank(i)]]

\* generate_strategy_ranking_batch over the one date of crossSection
GenerateStrategyRanking ==
    /\ runs < MaxRuns
    /\ ranked' = CalculateDailyRanking(crossSection, Strategy(strategyName))
    /\ prevRanked' = ranked
    /\ runs' = runs + 1
    /\ pc' = <<"generate_strategy_ranking_batch">>
    /\ UNCHANGED <<crossSection, strategyName, tiePriority, rankingTable>>
    /\ UNCHANGED <<diffVars, planVars, retVars>>

\* the orders argsort can leave equal keys in: input order (insertion sort on
\* short frames), or one of two rearrangements (introsort / SIMD networks)
TiePriorities ==
    { [i \in 1 .. MaxPairs |-> i],
      [i \in 1 .. MaxPairs |-> MaxPairs + 1 - i],
      [i \in 1 .. MaxPairs |-> (i % MaxPairs) + 1] }

\* the column sets of the frames handed to calculate_final_ranking: all
\* indicator columns, or a frame without the 2d_ROI column
ColumnSets == { Indicators, {"1d_ROI"} }

InitRank ==
    /\ DiffIdle /\ PlanIdle /\ RetIdle /\ pc = <<"init">>
    /\ \E n \in 1 .. MaxPairs, cols \in ColumnSets :
          \E v1 \in [1 .. n -> IndicatorValues], v2 \in [1 .. n -> IndicatorValues] :
              crossSection = [i \in 1 .. n |->
                                [Trading_Pair |-> TradingPair(i),
                                 values |-> [ind \in cols |->
                                               IF ind = "1d_ROI" THEN v1[i] ELSE v2[i]]]]
    /\ strategyName \in StrategyNames
    /\ tiePriority \in TiePriorities
    /\ ranked = <<>> /\ prevRanked = <<>> /\ runs = 0
    /\ rankingTable = EmptyTable

NextRank == GenerateStrategyRanking

SpecRank == InitRank /\ [][NextRank]_vars

\* C8: the ranks of one run are exactly 1..N over the N input pairs, each pair
\* once, and a strictly higher final score has a smaller rank.
C8_DenseRanks ==
    runs > 0 =>
        /\ Len(ranked) = Len(crossSection)
        /\ { ranked[i].Rank : i \in DOMAIN ranked } = 1 .. Len(crossSection)
        /\ { ranked[i].Trading_Pair : i \in DOMAIN ranked } =
               { crossSection[i].Trading_Pair : i \in DOMAIN crossSection }
        /\ \A i, j \in DOMAIN ranked :
              (/\ ranked[i].final_ranking_score # NULL
               /\ ranked[j].final_ranking_score # NULL
               /\ ranked[i].final_ranking_score[1].num * ranked[j].final_ranking_score[1].den
                    > ranked[j].final_ranking_score[1].num * ranked[i].final_ranking_score[1].den)
              => ranked[i].Rank < ranked[j].Rank

\* a ranked cross-section of three pairs with a tie and a strictly better pair
\* that was not first in the input
C8_Witness ==
    /\ runs > 0 /\ Len(ranked) = 3
    /\ ranked[1].final_ranking_score # NULL
    /\ ranked[1].Trading_Pair # TradingPair(1)
    /\ ranked[2].final_ranking_score = ranked[3].final_ranking_score
    /\ ranked[1].final_ranking_score # ranked[2].final_ranking_score

RankOf(frame, pair) ==
    { frame[i].Rank : i \in { k \in DOMAIN frame : frame[k].Trading_Pair = pair } }

C20_BackfillWindow ==
    (/\ pc[1] = "calculate_processing_ranges"
     /\ sourceInfo # NULL /\ resultInfo # NULL
     /\ sourceInfo[1].earliest < resultInfo[1].earliest) =>
        /\ Len(ranges) >= 1
        /\ WindowHours(ranges[1]) \cap (sourceInfo[1].earliest .. sourceInfo[1].latest)
              = sourceInfo[1].earliest .. (resultInfo[1].earliest - 1)

(***************************************************************************)
(* SpecIncr: observations arrive (for any symbol, earlier or later than    *)
(* what is stored) and main() runs without --start-date/--end-date, so the *)
(* windows come from calculate_processing_ranges                           *)
(***************************************************************************)
IncrMaxObs == 4
IncrDays   == 2
IncrHours  == 0 .. (IncrDays * HoursPerDay - 1)

\* get_data_range_info(symbol): MIN/MAX(timestamp_utc) of both tables
\* the two queries without their WHERE symbol = ? clause
RangeInfoAllSymbols(tbl, symArg) ==
    LET src == { o.ts : o \in history }
        res == { k[1] : k \in DOMAIN tbl }
    IN  [source |-> IF src = {} THEN NULL
                    ELSE Some([earliest |-> Min(src), latest |-> Max(src)]),
         result |-> IF res = {} THEN NULL
                    ELSE Some([earliest |-> Min(res), latest |-> Max(res)])]

RangeInfo(tbl, symArg) ==
    LET src == { o.ts : o \in { p \in history : symArg # NULL => p.symbol = symArg[1] } }
        res == { k[1] : k \in { q \in DOMAIN tbl : symArg # NULL => q[2] = symArg[1] } }
    IN  [source |-> IF src = {} THEN NULL
                    ELSE Some([earliest |-> Min(src), latest |-> Max(src)]),
         result |-> IF res = {} THEN NULL
                    ELSE Some([earliest |-> Min(res), latest |-> Max(res)])]

GetDataRangeInfo(symArg) == RangeInfo(diffTable, symArg)

\* main, the loop "for start_date, end_date in processing_ranges"
RECURSIVE ProcessRanges(_, _, _, _)
ProcessRanges(tbl, rs, symArg, exs) ==
    IF rs = <<>> THEN tbl
    ELSE LET df      == GetFrHistory(symArg, exs, Some(Head(rs)[1]), Some(Head(rs)[2]))
             diff_df == CalculateFundingRateDifferencesV3(df, PairsOf(exs))
         IN  ProcessRanges(SaveFrDiff(tbl, diff_df), Tail(rs), symArg, exs)

\* fetch_and_save_fr for one symbol and hour over both default exchanges
FetchAndSaveFr(ts, sym) ==
    /\ pc[1] \in {"init", "ingest", "main_incremental"}
    /\ LET h1 == SaveFundingRates(history, ts, sym, "binance", Some(10))
           h2 == SaveFundingRates(h1, ts, sym, "bybit", Some(-14))
       IN  /\ Cardinality(h2) <= 2 * IncrMaxObs
           /\ h2 # history
           /\ history' = h2
    /\ pc' = <<"ingest">>
    /\ UNCHANGED <<diffTable, symbolData, exchangePairs, diffRows, invocations>>
    /\ UNCHANGED <<planVars, retVars, rankVars>>

\* main() with neither --force-full nor a date range
MainIncremental(symArg, exs) ==
    /\ pc[1] \in {"ingest", "main_incremental"}
    /\ LET info == GetDataRangeInfo(symArg)
           rs   == CalculateProcessingRanges(info.source, info.result)
       IN  diffTable' = ProcessRanges(diffTable, rs, symArg, exs)
    /\ pc' = <<"main_incremental", symArg>>
    /\ UNCHANGED <<history, symbolData, exchangePairs, diffRows, invocations>>
    /\ UNCHANGED <<planVars, retVars, rankVars>>

InitIncr == InitDiff

NextIncr ==
    \/ \E ts \in IncrHours, sym \in Symbols : FetchAndSaveFr(ts, sym)
    \/ \E symArg \in {NULL} \cup { Some(sy) : sy \in Symbols }, exs \in ExchangeLists :
          MainIncremental(symArg, exs)

SpecIncr == InitIncr /\ [][NextIncr]_vars

StoredHours(sym, a, b) ==
    { k[1] : k \in { q \in DOMAIN diffTable : q[2] = sym /\ q[3] = a /\ q[4] = b } }

SourceHours(sym, a, b) ==
    { o.ts : o \in { p \in history : p.symbol = sym /\ p.exchange \in {a, b} } }

\* C11: after an incremental run, every symbol the run covers has, for the
\* binance/bybit pair, a stored row for exactly the hours from its earliest to
\* its latest source observation.
C11_IncrementalNoGap ==
    pc[1] = "main_incremental" =>
        \A sym \in Symbols :
            (/\ pc[2] = NULL \/ pc[2] = Some(sym)
             /\ SourceHours(sym, "binance", "bybit") # {}) =>
                StoredHours(sym, "binance", "bybit") =
                    Min(SourceHours(sym, "binance", "bybit")) ..
                        Max(SourceHours(sym, "binance", "bybit"))

\* C12: of two pairs with the same final score, the one that comes first in
\* the input cross-section gets the smaller rank.
C12_StableTies ==
    runs > 0 =>
        \A a, b \in DOMAIN ranked :
            (/\ ranked[a].final_ranking_score # NULL
             /\ ranked[a].final_ranking_score = ranked[b].final_ranking_score
             /\ ranked[a].Trading_Pair[2] < ranked[b].Trading_Pair[2])
            => ranked[a].Rank < ranked[b].Rank

\* the strategy names a component with an indicator that is no column of the
\* cross-section
ReferencesMissingIndicator ==
    \E c \in DOMAIN Strategy(strategyName).components :
        \E k \in DOMAIN Strategy(strategyName).components[c].indicators :
            Strategy(strategyName).components[c].indicators[k] \notin Columns(crossSection)

\* C14: a run of a strategy that references an indicator missing from the
\* input produces no ranking records.
C14_MissingIndicatorFatal ==
    (runs > 0 /\ ReferencesMissingIndicator) => ranked = <<>>

\* a component that gives no score for row i: it raised, or its score is NaN
NonComputable(df, comp, i) ==
    LET score == CalculateComponentScore(df, comp, i)
    IN  Raised(score) \/ score = NULL

\* C13: a pair for which every component of the strategy is non-computable
\* has no row, and so no rank, in the output of the run.
C13_NonComputableExcluded ==
    runs > 0 =>
        \A i \in DOMAIN crossSection :
            (\A c \in DOMAIN Strategy(strategyName).components :
                NonComputable(crossSection, Strategy(strategyName).components[c], i))
            => RankOf(ranked, crossSection[i].Trading_Pair) = {}

(***************************************************************************)
(* SpecCanon: main() of calculate_FR_diff_v3.py run with the exchanges     *)
(* given in any order                                                      *)
(***************************************************************************)
\* --exchanges values, the default order and others
SuppliedOrders == ExchangeLists \cup { <<"bybit", "binance">> }

\* position of an exchange name in string order
ExchangeRank(ex) == CASE ex = "binance" -> 1 [] ex = "bybit" -> 2 [] OTHER -> 3

NextCanon ==
    \/ \E ts \in Hours, ex \in Exchanges, rate \in Rates :
          Ingest(ts, DiffSymbol, ex, rate, EngineMaxObs)
    \/ \E exs \in SuppliedOrders, sd \in Dates, ed \in Dates :
          sd <= ed /\ MainDateRange(Some(DiffSymbol), exs, sd, ed)

SpecCanon == InitEngine /\ [][NextCanon]_vars

\* C15: every stored row has exchange_a before exchange_b in string order, and
\* no stored row has a mirror image in the store.
C15_CanonicalOrder ==
    \A k \in DOMAIN diffTable :
        /\ ExchangeRank(k[3]) < ExchangeRank(k[4])
        /\ <<k[1], k[2], k[4], k[3]>> \notin DOMAIN diffTable

(***************************************************************************)
(* SpecSave: main() of strategy_ranking_v2.py run several times for one    *)
(* strategy and date, with or without --symbol, each run saving its        *)
(* ranking into strategy_ranking                                           *)
(***************************************************************************)
\* the date of the cross-section
RankDate == 1

\* uniqueness key of strategy_ranking
RankingKey(strategy, row) == <<strategy, row.Trading_Pair, RankDate>>

\* get_return_metrics(trading_pair=symbol): the rows of the date, all or one pair's
GetReturnMetrics(symArg) ==
    SelectSeq(crossSection, LAMBDA r : symArg = NULL \/ r.Trading_Pair = symArg[1])

\* insert_strategy_ranking: INSERT OR REPLACE INTO strategy_ranking, executemany
RECURSIVE InsertStrategyRanking(_, _, _)
InsertStrategyRanking(tbl, rows, strategy) ==
    IF rows = <<>> THEN tbl
    ELSE LET key == RankingKey(strategy, Head(rows))
             new == [final_ranking_score |-> Head(rows).final_ranking_score,
                     rank_position       |-> Head(rows).Rank]
         IN  InsertStrategyRanking(
                 [k \in DOMAIN tbl \cup {key} |-> IF k = key THEN new ELSE tbl[k]],
                 Tail(rows), strategy)

\* main(): load, generate_strategy_ranking_batch, save_strategy_ranking_to_database
RankingMain(symArg) ==
    /\ runs < MaxRuns
    /\ LET all_data  == GetReturnMetrics(symArg)
           ranked_df == IF all_data = <<>> THEN <<>>
                        ELSE CalculateDailyRanking(all_data, Strategy(strategyName))
       IN  /\ all_data # <<>>
           /\ ranked' = ranked_df
           /\ rankingTable' = InsertStrategyRanking(rankingTable, ranked_df, strategyName)
    /\ prevRanked' = ranked
    /\ runs' = runs + 1
    /\ pc' = <<"ranking_main", symArg>>
    /\ UNCHANGED <<crossSection, strategyName, tiePriority>>
    /\ UNCHANGED <<diffVars, planVars, retVars>>

\* return_metrics of the date: up to MaxPairs pairs, every 2d_ROI the same
InitSave ==
    /\ DiffIdle /\ PlanIdle /\ RetIdle /\ pc = <<"init">>
    /\ \E n \in 1 .. MaxPairs :
          \E v1 \in [1 .. n -> IndicatorValues] :
              crossSection = [i \in 1 .. n |->
                                [Trading_Pair |-> TradingPair(i),
                                 values |-> [ind \in Indicators |->
                                               IF ind = "1d_ROI" THEN v1[i] ELSE Some(1)]]]
    /\ strategyName \in StrategyNames
    /\ tiePriority \in TiePriorities
    /\ ranked = <<>> /\ prevRanked = <<>> /\ runs = 0
    /\ rankingTable = EmptyTable

NextSave ==
    \E symArg \in {NULL} \cup { Some(TradingPair(i)) : i \in 1 .. MaxPairs } :
        RankingMain(symArg)

SpecSave == InitSave /\ [][NextSave]_vars

\* C16: the rows stored for the strategy and date are the rows of the latest
\* run, no more and no fewer, with rank positions 1..N each used once.
C16_StoredIsLatestRun ==
    runs > 0 =>
        /\ DOMAIN rankingTable = { RankingKey(strategyName, ranked[i]) : i \in DOMAIN ranked }
        /\ \A i \in DOMAIN ranked :
              rankingTable[RankingKey(strategyName, ranked[i])].rank_position = ranked[i].Rank
        /\ \A k1, k2 \in DOMAIN rankingTable :
              k1 # k2 => rankingTable[k1].rank_position # rankingTable[k2].rank_position

(***************************************************************************)
(* SpecRetMain: main() of calculate_FR_return_list.py run after the        *)
(* Differential history of one trading pair has grown by later dates       *)
(***************************************************************************)
MainMaxDay == 5

\* load_fr_diff_data_from_database(start_date, end_date): DATE(ts) >= ? AND DATE(ts) <= ?
LoadFrDiffData(f, start_date, end_date) ==
    [d \in DOMAIN f |-> IF start_date <= d /\ d <= end_date THEN f[d] ELSE <<>>]

\* main(): dates not yet in return_metrics, frame loaded over min..max of
\* them, calculate_returns per date, INSERT OR REPLACE INTO return_metrics
ReturnMainTable(f, tbl) ==
    LET existing_dates == DOMAIN tbl
        dataDates      == { d \in DOMAIN f : f[d] # <<>> }
        all_dates      == IF dataDates = {} THEN {} ELSE Min(dataDates) .. Max(dataDates)
        new_dates      == all_dates \ existing_dates
    IN  IF new_dates = {} THEN tbl
        ELSE LET combined_df == LoadFrDiffData(f, Min(new_dates), Max(new_dates))
                 saved == { d \in new_dates : CalculateReturns(combined_df, d) # NULL }
             IN  [d \in existing_dates \cup saved |->
                    IF d \in saved THEN CalculateReturns(combined_df, d)[1] ELSE tbl[d]]

ReturnMain ==
    /\ pc[1] \in {"diff_appended", "return_main"}
    /\ returnMetrics' = ReturnMainTable(fr, returnMetrics)
    /\ pc' = <<"return_main">>
    /\ UNCHANGED <<fr, target, metric, diffVars, planVars, rankVars>>

\* the Differential Engine stores the rows of a date later than every date of
\* funding_rate_diff and of return_metrics
AppendDifferentials(d) ==
    /\ \A e \in DOMAIN fr : fr[e] # <<>> => e < d
    /\ \A e \in DOMAIN returnMetrics : e < d
    /\ fr' = [fr EXCEPT ![d] = DayRows(d)]
    /\ pc' = <<"diff_appended">>
    /\ UNCHANGED <<target, metric, returnMetrics, diffVars, planVars, rankVars>>

InitRetMain ==
    /\ DiffIdle /\ PlanIdle /\ RankIdle /\ pc = <<"init">>
    /\ fr = [d \in 1 .. MainMaxDay |-> <<>>]
    /\ target = 0 /\ metric = NULL /\ returnMetrics = EmptyTable

NextRetMain ==
    \/ \E d \in 1 .. MainMaxDay : AppendDifferentials(d)
    \/ ReturnMain

SpecRetMain == InitRetMain /\ [][NextRetMain]_vars

MetricEq(a, b) ==
    /\ a.date = b.date
    /\ \A p \in PeriodNames : a.ret[p] = b.ret[p] /\ FracEq(a.roi[p], b.roi[p])

\* C17: after a run, return_metrics holds for every date what one run over
\* the whole Differential history, starting from an empty return_metrics,
\* stores for that date.
C17_IncrementalEqualsFull ==
    pc[1] = "return_main" =>
        LET full == ReturnMainTable(fr, EmptyTable)
        IN  /\ DOMAIN returnMetrics = DOMAIN full
            /\ \A d \in DOMAIN full : MetricEq(returnMetrics[d], full[d])

(***************************************************************************)
(* SpecConc: two main() processes of calculate_FR_diff_v3.py, one per      *)
(* --symbol, started on the same store and interleaved window by window.   *)
(* A step is one statement that touches the store: the range queries of    *)
(* calculate_processing_ranges, or one window's read and its committed     *)
(* executemany.                                                            *)
(***************************************************************************)
DefaultExchanges == <<"binance", "bybit">>

\* one whole run of main --symbol sym on table tbl
MainForSymbol(tbl, sym) ==
    LET info == RangeInfo(tbl, Some(sym))
    IN  ProcessRanges(tbl, CalculateProcessingRanges(info.source, info.result),
                      Some(sym), DefaultExchanges)

\* both processes are launched on the current store
LaunchBoth ==
    /\ pc[1] \in {"ingest", "main_incremental"}
    /\ invocations' = [sym \in Symbols |->
                         [at |-> "launched", todo |-> <<>>, done |-> <<>>, start |-> diffTable]]
    /\ pc' = <<"launched">>
    /\ UNCHANGED <<history, diffTable, symbolData, exchangePairs, diffRows>>
    /\ UNCHANGED <<planVars, retVars, rankVars>>

\* processing_ranges = calculate_processing_ranges(args.symbol)
PlanStep(sym) ==
    /\ pc[1] \in {"launched", "step"}
    /\ invocations[sym].at = "launched"
    /\ LET info == GetDataRangeInfo(Some(sym))
           rs   == CalculateProcessingRanges(info.source, info.result)
       IN  invocations' = [invocations EXCEPT
                              ![sym].at = IF rs = <<>> THEN "returned" ELSE "planned",
                              ![sym].todo = rs]
    /\ pc' = <<"step", sym>>
    /\ UNCHANGED <<history, diffTable, symbolData, exchangePairs, diffRows>>
    /\ UNCHANGED <<planVars, retVars, rankVars>>

\* one iteration of "for start_date, end_date in processing_ranges"
WindowStep(sym) ==
    /\ pc[1] = "step"
    /\ invocations[sym].at = "planned"
    /\ LET w == Head(invocations[sym].todo)
       IN  /\ diffTable' = ProcessRanges(diffTable, <<w>>, Some(sym), DefaultExchanges)
           /\ invocations' = [invocations EXCEPT
                                 ![sym].at = IF Tail(invocations[sym].todo) = <<>>
                                             THEN "returned" ELSE "planned",
                                 ![sym].todo = Tail(invocations[sym].todo),
                                 ![sym].done = Append(invocations[sym].done, w)]
    /\ pc' = <<"step", sym>>
    /\ UNCHANGED <<history, symbolData, exchangePairs, diffRows>>
    /\ UNCHANGED <<planVars, retVars, rankVars>>

InitConc == InitDiff

NextConc ==
    \/ \E ts \in IncrHours, sym \in Symbols : FetchAndSaveFr(ts, sym)
    \/ \E symArg \in { Some(sy) : sy \in Symbols } : MainIncremental(symArg, DefaultExchanges)
    \/ LaunchBoth
    \/ \E sym \in Symbols : PlanStep(sym)
    \/ \E sym \in Symbols : WindowStep(sym)

SpecConc == InitConc /\ [][NextConc]_vars

RowsOfSymbol(tbl, sym) ==
    [k \in { q \in DOMAIN tbl : q[2] = sym } |-> tbl[k]]

FactorMaxDay == 6
FactorPairs  == 2

\* FACTOR_STRATEGIES['cerebrum_core'] reduced to the factor F_winrate with
\* weight 1; 30 data days, 3 skipped days and a window of 60 days scaled down
FactorStrategy == "cerebrum_core"
MinDataDays    == 3
SkipFirstNDays == 1
FactorWindow   == 4

\* the extra buffer of days get_strategy_data loads before the target date
LoadBufferDays == 30

FactorDays == 1 .. FactorMaxDay

\* roi_1d stored for trading pair i on date d
FactorRoi(i, d) == IF (i + d) % 2 = 0 THEN 2 ELSE -1

TradingPairsOf(keys) == { k[1] : k \in keys }
DatesOf(keys, pair) == { k[2] : k \in { kk \in keys : kk[1] = pair } }

\* get_return_metrics_date_range(): MIN(date), MAX(date) of return_metrics
GetReturnMetricsDateRange(tbl) ==
    IF DOMAIN tbl = {} THEN <<NULL, NULL>>
    ELSE LET dates == { k[2] : k \in DOMAIN tbl }
         IN  <<Some(Min(dates)), Some(Max(dates))>>

\* check_data_sufficiency(strategy_name, target_date): is_sufficient
CheckDataSufficiency(tbl, target_date) ==
    LET range == GetReturnMetricsDateRange(tbl)
    IN  IF range[2] = NULL THEN FALSE
        ELSE LET earliest_date  == range[1][1]
                 latest_date    == range[2][1]
                 available_days == (target_date - earliest_date) + 1
             IN  IF target_date > latest_date THEN FALSE
                 ELSE IF available_days < MinDataDays + SkipFirstNDays THEN FALSE
                 ELSE IF SkipFirstNDays > 0 /\ available_days <= SkipFirstNDays THEN FALSE
                 ELSE IF available_days < FactorWindow + SkipFirstNDays THEN FALSE
                 ELSE TRUE

\* get_strategy_data(strategy_config, target_date): the keys of the loaded
\* rows, or the ValueError raised for an empty frame
GetStrategyData(tbl, target_date) ==
    LET start_date == target_date - (MinDataDays + SkipFirstNDays + LoadBufferDays)
        df == { k \in DOMAIN tbl : start_date <= k[2] /\ k[2] <= target_date }
        valid_pairs == { p \in TradingPairsOf(df) :
                           target_date - Min(DatesOf(df, p)) >= SkipFirstNDays }
    IN  IF df = {} THEN ValueError
        ELSE IF SkipFirstNDays > 0
             THEN Some({ k \in df : k[1] \in valid_pairs })
             ELSE Some(df)

\* the last n elements of a set of dates: pair_data.sort_values('date').tail(n)
RECURSIVE TailDates(_, _)
TailDates(dates, n) ==
    IF n = 0 \/ dates = {} THEN {}
    ELSE {Max(dates)} \cup TailDates(dates \ {Max(dates)}, n - 1)

MinRequiredPoints(window) ==
    LET q == IF window \div 4 < 3 THEN window \div 4 ELSE 3
    IN  IF q > 2 THEN q ELSE 2

\* calculate_win_rate(series): winning days over days
CalculateWinRate(tbl, pair, dates) ==
    IF dates = {} THEN Frac(0, 1)
    ELSE Frac(Cardinality({ d \in dates : tbl[<<pair, d>>].roi_1d > 0 }),
              Cardinality(dates))

\* calculate_factor_for_trading_pair_with_details: the score, NaN as NULL
CalculateFactorForTradingPair(tbl, pair, dates) ==
    LET recent_data == TailDates(dates, FactorWindow)
    IN  IF Cardinality(recent_data) < MinRequiredPoints(FactorWindow) THEN NULL
        ELSE Some(CalculateWinRate(tbl, pair, recent_data))

\* result_df.sort_values('final_ranking_score', ascending=False)
RECURSIVE SortFactorScores(_, _)
SortFactorScores(rows, idx) ==
    IF idx = {} THEN <<>>
    ELSE LET Key(i) == rows[i].final_ranking_score
             best == CHOOSE i \in idx : \A j \in idx \ {i} :
                        \/ Key(i).num * Key(j).den > Key(j).num * Key(i).den
                        \/ /\ FracEq(Key(i), Key(j))
                           /\ TieBefore(i, j)
         IN  <<rows[best]>> \o SortFactorScores(rows, idx \ {best})

\* the rows of results, in the order of the trading pairs
RECURSIVE FactorResults(_, _, _, _)
FactorResults(tbl, df, target_date, i) ==
    IF i > FactorPairs THEN <<>>
    ELSE LET pair  == TradingPair(i)
             score == CalculateFactorForTradingPair(tbl, pair, DatesOf(df, pair))
         IN  (IF pair \notin TradingPairsOf(df) \/ score = NULL THEN <<>>
              ELSE << [trading_pair |-> pair, date |-> target_date,
                       final_ranking_score |-> score[1]] >>)
             \o FactorResults(tbl, df, target_date, i + 1)

\* calculate_strategy_ranking(strategy_name, target_date): the ranked frame,
\* or the ValueError of get_strategy_data
CalculateStrategyRanking(tbl, target_date) ==
    LET data == GetStrategyData(tbl, target_date)
    IN  IF Raised(data) THEN ValueError
        ELSE LET results == FactorResults(tbl, data[1], target_date, 1)
                 sorted  == SortFactorScores(results, DOMAIN results)
             IN  [i \in DOMAIN sorted |->
                    [trading_pair |-> sorted[i].trading_pair,
                     date |-> sorted[i].date,
                     final_ranking_score |-> sorted[i].final_ranking_score,
                     rank_position |-> i]]

\* insert_strategy_ranking(result_df, strategy_name) for frames with a date column
RECURSIVE InsertFactorRanking(_, _, _)
InsertFactorRanking(tbl, rows, strategy) ==
    IF rows = <<>> THEN tbl
    ELSE LET key == <<strategy, Head(rows).trading_pair, Head(rows).date>>
             new == [final_ranking_score |-> Head(rows).final_ranking_score,
                     rank_position       |-> Head(rows).rank_position]
         IN  InsertFactorRanking(
                 [k \in DOMAIN tbl \cup {key} |-> IF k = key THEN new ELSE tbl[k]],
                 Tail(rows), strategy)

\* run_strategy(strategy_name, target_date, save_to_db=True)
RunStrategy(target_date) ==
    /\ target' = target_date
    /\ IF ~CheckDataSufficiency(returnMetrics, target_date)
       THEN /\ ranked' = <<>>
            /\ pc' = <<"run_strategy", "insufficient">>
            /\ UNCHANGED rankingTable
       ELSE LET result_df == CalculateStrategyRanking(returnMetrics, target_date)
            IN  IF Raised(result_df)
                THEN /\ ranked' = <<>>
                     /\ pc' = <<"run_strategy", "raised">>
                     /\ UNCHANGED rankingTable
                ELSE /\ ranked' = result_df
                     /\ pc' = <<"run_strategy", "returned">>
                     /\ rankingTable' =
                            InsertFactorRanking(rankingTable, result_df, strategyName)
    /\ UNCHANGED <<fr, metric, returnMetrics>>
    /\ UNCHANGED <<crossSection, strategyName, prevRanked, runs, tiePriority>>
    /\ UNCHANGED <<diffVars, planVars>>

InitFactor ==
    /\ DiffIdle /\ PlanIdle /\ pc = <<"init">>
    /\ fr = <<>> /\ target = 0 /\ metric = NULL
    /\ \E keys \in SUBSET ({ TradingPair(i) : i \in 1 .. FactorPairs } \X FactorDays) :
          returnMetrics = [k \in keys |-> [roi_1d |-> FactorRoi(k[1][2], k[2])]]
    /\ crossSection = <<>> /\ strategyName = FactorStrategy
    /\ tiePriority \in TiePriorities
    /\ ranked = <<>> /\ prevRanked = <<>> /\ runs = 0
    /\ rankingTable = EmptyTable

NextFactor == \E target_date \in FactorDays : RunStrategy(target_date)

SpecFactor == InitFactor /\ [][NextFactor]_vars

\* the number of dates up to the target date on which the pair has a row
DataDays(pair, target_date) ==
    Cardinality({ d \in DatesOf(DOMAIN returnMetrics, pair) : d <= target_date })

RankedPairs == { ranked[i].trading_pair : i \in DOMAIN ranked }

\* C19: after a run for a target date, no trading pair with fewer data-days
\* than the strategy's minimum is in the ranking, and every pair with at least
\* the minimum number of data-days is.
C19_InsufficientHistorySkipped ==
    pc[1] = "run_strategy" =>
        \A i \in 1 .. FactorPairs :
            LET pair == TradingPair(i)
            IN  /\ DataDays(pair, target) < MinDataDays => pair \notin RankedPairs
                /\ DataDays(pair, target) >= MinDataDays => pair \in RankedPairs


\* C21: when the source extent ends after the result extent, the last emitted
\* window selects, of the hours up to source_max, exactly those from one hour
\* after result_max to source_max, so none of the result extent's hours.
C21_AppendWindow ==
    (/\ pc[1] = "calculate_processing_ranges"
     /\ sourceInfo # NULL /\ resultInfo # NULL
     /\ sourceInfo[1].latest > resultInfo[1].latest) =>
        /\ Len(ranges) >= 1
        /\ { h \in WindowHours(ranges[Len(ranges)]) : h <= sourceInfo[1].latest }
              = (resultInfo[1].latest + 1) .. sourceInfo[1].latest

\* C22: right after an incremental run has processed its windows, a call of
\* calculate_processing_ranges for the same --symbol emits no window.
C22_SecondCallEmitsNothing ==
    pc[1] = "main_incremental" =>
        LET info == GetDataRangeInfo(pc[2])
        IN  CalculateProcessingRanges(info.source, info.result) = <<>>


\* the frame the latest main() run handed to save_fr_diff
LatestFrame ==
    CalculateFundingRateDifferencesV3(
        GetFrHistory(pc[2], pc[3], Some(pc[4]), Some(pc[5])), PairsOf(pc[3]))

StoredLeg(leg) == IF leg = NULL THEN NULL ELSE Str(leg[1])

\* C23 as stated: after a run, every row of its frame is stored with diff_ab 0
\* and both legs null when its diff is null, and otherwise with exactly its
\* diff; an absent leg is stored as null, a present one as its text.
C23_StoredAsComputed ==
    pc[1] = "main" =>
        \A i \in DOMAIN LatestFrame :
            LET r      == LatestFrame[i]
                stored == diffTable[DiffKey(r)]
            IN  /\ DiffKey(r) \in DOMAIN diffTable
                /\ stored.funding_rate_a = StoredLeg(r.funding_rate_a)
                /\ stored.funding_rate_b = StoredLeg(r.funding_rate_b)
                /\ r.diff_ab = NULL =>
                      /\ stored.diff_ab = 0
                      /\ stored.funding_rate_a = NULL /\ stored.funding_rate_b = NULL
                /\ r.diff_ab # NULL => stored.diff_ab = r.diff_ab[1]

\* C23, amended: the same, with a non-null diff stored rounded to 8 decimal
\* places.
C23_StoredRounded ==
    pc[1] = "main" =>
        \A i \in DOMAIN LatestFrame :
            LET r      == LatestFrame[i]
                stored == diffTable[DiffKey(r)]
            IN  /\ DiffKey(r) \in DOMAIN diffTable
                /\ stored.funding_rate_a = StoredLeg(r.funding_rate_a)
                /\ stored.funding_rate_b = StoredLeg(r.funding_rate_b)
                /\ r.diff_ab = NULL =>
                      /\ stored.diff_ab = 0
                      /\ stored.funding_rate_a = NULL /\ stored.funding_rate_b = NULL
                /\ r.diff_ab # NULL => stored.diff_ab = Round8(r.diff_ab[1])

\* a run whose frame holds a row with neither leg and a row with one leg
C23_Witness ==
    /\ pc[1] = "main"
    /\ \E i, j \in DOMAIN LatestFrame :
          /\ LatestFrame[i].diff_ab = NULL
          /\ diffTable[DiffKey(LatestFrame[i])].diff_ab = 0
          /\ LatestFrame[j].funding_rate_a = NULL /\ LatestFrame[j].funding_rate_b # NULL
          /\ diffTable[DiffKey(LatestFrame[j])].funding_rate_a = NULL
          /\ diffTable[DiffKey(LatestFrame[j])].diff_ab # 0


\* C24: when the trading pair has rows on an earlier date and none on the
\* target date, the call still yields a ReturnMetric for that date, and every
\* return and ROI in it is 0.
C24_EmptyDayZeroMetric ==
    (/\ ReturnCalled /\ fr[target] = <<>>
     /\ \E d \in Days : d < target /\ fr[d] # <<>>) =>
        /\ metric # NULL
        /\ metric[1].date = target
        /\ \A p \in PeriodNames :
              metric[1].ret[p] = 0 /\ FracEq(metric[1].roi[p], Zero)


\* the dates up to d on which the trading pair has a Differential row
HistoryDates(d) == { e \in DOMAIN fr : e <= d /\ fr[e] # <<>> }

\* C25: in every ReturnMetric stored for a date that has Differential rows,
\* return_all is the sum of daily_sum over all dates of the pair's history up
\* to that date, and roi_all is that sum times 365 over the number of those
\* dates.
C25_ReturnAllFullHistory ==
    pc[1] = "return_main" =>
        \A d \in DOMAIN returnMetrics : fr[d] # <<>> =>
            /\ returnMetrics[d].ret["all"] = SumOver(HistoryDates(d))
            /\ FracEq(returnMetrics[d].roi["all"],
                      AnnualizedRoi(SumOver(HistoryDates(d)),
                                    Cardinality(HistoryDates(d))))


(***************************************************************************)
(* SpecRetNull: calculate_returns and the SQL path over a frame in which   *)
(* hours, or all hours of a date, have a null Diff_AB                      *)
(***************************************************************************)
NullMaxDay == 4
NullDays   == 1 .. NullMaxDay

InitRetNull ==
    /\ DiffIdle /\ PlanIdle /\ RankIdle /\ pc = <<"init">>
    /\ \E kind \in [NullDays -> {"none", "rows", "null_hour", "null_date"}] :
          fr = [d \in NullDays |->
                  CASE kind[d] = "none"      -> <<>>
                    [] kind[d] = "rows"      -> DayRows(d)
                    [] kind[d] = "null_hour" -> DayRowsWithNull(d)
                    [] OTHER                 -> DayRowsAllNull]
    /\ target = 0
    /\ metric = NULL
    /\ returnMetrics = EmptyTable

NextRetNull ==
    \/ \E t \in NullDays : CallCalculateReturns(t)
    \/ \E t \in NullDays : CallSqlOptimized(t)

SpecRetNull == InitRetNull /\ [][NextRetNull]_vars

\* C26: every return of a metric is the sum, over the dates its window uses
\* (none of them after the target date), of the non-null Diff_AB values of
\* that date's hours, and return_1d is the target date's own such sum.
C26_DailyReturnSkipsNulls ==
    (ReturnCalled /\ metric # NULL) =>
        /\ \A p \in PeriodNames : metric[1].ret[p] = SumOver(DaysUsed(p))
        /\ target \in DataDates => metric[1].ret["1d"] = DailySumOf(target)

\* a metric for a date with a null hour, after a date of null hours only and
\* before a date with rows
C26_Witness ==
    /\ ReturnCalled /\ metric # NULL
    /\ \E i \in DOMAIN fr[target] : fr[target][i] = NULL
    /\ metric[1].ret["1d"] # 0
    /\ \E d \in NullDays : d < target /\ fr[d] = DayRowsAllNull
    /\ \E d \in NullDays : d > target /\ fr[d] # <<>> /\ DailySumOf(d) # 0


\* the indicator has the same value for every pair of the cross-section
ZeroDeviation(df, ind) ==
    \A i, j \in DOMAIN df : Column(df, ind)[i] = Column(df, ind)[j]

\* C27: in a run of a strategy with a normalized component, an indicator
\* whose values are the same for all pairs (a single pair included) has the
\* normalized value 0 for every pair, and the component score is a number.
C27_ZeroStdNormalizesToZero ==
    runs > 0 =>
        \A c \in DOMAIN Strategy(strategyName).components :
            LET comp == Strategy(strategyName).components[c]
            IN  (/\ comp.normalize
                 /\ \A k \in DOMAIN comp.indicators : comp.indicators[k] \in Columns(crossSection)) =>
                    \A k \in DOMAIN comp.indicators :
                        ZeroDeviation(crossSection, comp.indicators[k]) =>
                            \A i \in DOMAIN crossSection :
                                /\ IndicatorData(crossSection, comp, comp.indicators[k], i) = Some(0)
                                /\ (\A kk \in DOMAIN comp.indicators :
                                        ZeroDeviation(crossSection, comp.indicators[kk]))
                                      => CalculateComponentScore(crossSection, comp, i) # NULL


\* the constants the configured weights are multiplied by
MaxWeightScale == 3
WeightScales   == 2 .. MaxWeightScale

ScaleWeights(w, k) == [i \in DOMAIN w |-> w[i] * k]

\* the strategy with the weights of component c, or of the final combination,
\* multiplied by k
ScaleComponent(strat, c, k) ==
    [strat EXCEPT !.components[c].weights = ScaleWeights(@, k)]
ScaleFinal(strat, k) ==
    [strat EXCEPT !.final_combination.weights = ScaleWeights(@, k)]

SameRanking(a, b) ==
    /\ Len(a) = Len(b)
    /\ \A i \in DOMAIN a :
          /\ a[i].Trading_Pair = b[i].Trading_Pair
          /\ a[i].Rank = b[i].Rank
          /\ (a[i].final_ranking_score = NULL) = (b[i].final_ranking_score = NULL)
          /\ a[i].final_ranking_score # NULL =>
                FracEq(a[i].final_ranking_score[1], b[i].final_ranking_score[1])

\* C28: the ranking of a run, scores and positions, is the ranking the same
\* cross-section gets when all weights of one component, or of the final
\* combination, are multiplied by the same positive constant.
C28_WeightScaleInvariant ==
    runs > 0 =>
        \A k \in WeightScales :
            LET strat == Strategy(strategyName)
            IN  /\ SameRanking(ranked, CalculateDailyRanking(crossSection, ScaleFinal(strat, k)))
                /\ \A c \in DOMAIN strat.components :
                      SameRanking(ranked,
                                  CalculateDailyRanking(crossSection, ScaleComponent(strat, c, k)))

\* a run of the two-component strategy that ranked pairs with different scores
C28_Witness ==
    /\ runs > 0 /\ strategyName = "test_two_components"
    /\ Len(ranked) >= 2
    /\ ranked[1].final_ranking_score # NULL /\ ranked[2].final_ranking_score # NULL
    /\ ranked[1].final_ranking_score[1].num > ranked[2].final_ranking_score[1].num
    /\ ranked[2].final_ranking_score[1].num > 0


(***************************************************************************)
(* SpecFetch: fetch_and_save_fr of fetch_FR_history_v2.py for one symbol,  *)
(* one task per exchange, over the records the exchange's API returned     *)
(***************************************************************************)
FetchMaxHour == 2
FetchHours   == 0 .. FetchMaxHour

\* r['fundingRate'] of an API record: a numeric string, a string that is not
\* a number, or a JSON null
RawKinds == {"num", "text", "null"}

\* the rate an exchange reports when the record is numeric
NumRate(ex) == IF ex = "binance" THEN 10 ELSE -14

\* float(r['fundingRate']): the number, or the exception raised
FloatOf(kind, ex) ==
    CASE kind = "num"  -> Some(NumRate(ex))
      [] kind = "text" -> <<"ValueError", "could not convert string to float">>
      [] OTHER         -> <<"TypeError", "float() argument must be a string or a real number">>

\* hourly_index joined with the parsed records: one row per hour, NaN where
\* no record was kept
FinalDf(ex, rates) ==
    { [ts |-> h, symbol |-> DiffSymbol, exchange |-> ex,
       rate |-> IF h \in DOMAIN rates THEN rates[h] ELSE NULL] : h \in FetchHours }

\* fetch_and_save_fr(session, task, start_date, end_date) for the exchange's
\* first fetch; except (KeyError, ValueError) skips the record, any other
\* exception leaves the function; with no record kept final_df has no column,
\* final_df.empty is true and nothing is saved
FetchAndSaveFrTask(ex, api_rates) ==
    /\ pc[1] \in {"init", "fetched"}
    /\ \A o \in history : o.exchange # ex
    /\ LET parsed == [h \in DOMAIN api_rates |-> FloatOf(api_rates[h], ex)]
           kept   == { h \in DOMAIN api_rates : ~Raised(parsed[h]) }
       IN  IF \E h \in DOMAIN api_rates : Raised(parsed[h]) /\ parsed[h][1] # "ValueError"
           THEN /\ history' = history
                /\ pc' = <<"fetched", ex, api_rates, "TypeError">>
           ELSE IF kept = {}
           THEN /\ history' = history
                /\ pc' = <<"fetched", ex, api_rates, "no_data">>
           ELSE /\ history' = history \cup FinalDf(ex, [h \in kept |-> parsed[h]])
                /\ pc' = <<"fetched", ex, api_rates, "saved">>
    /\ UNCHANGED <<diffTable, symbolData, exchangePairs, diffRows, invocations>>
    /\ UNCHANGED <<planVars, retVars, rankVars>>

InitFetch == InitDiff

NextFetch ==
    \E ex \in {"binance", "bybit"}, hs \in SUBSET FetchHours :
        \E api_rates \in [hs -> RawKinds] : FetchAndSaveFrTask(ex, api_rates)

SpecFetch == InitFetch /\ [][NextFetch]_vars

\* the observations as they would be with every non-numeric sample of the
\* last fetch received as a null
HistoryWithNulls ==
    { o \in history : o.exchange # pc[2] }
        \cup FinalDf(pc[2], [h \in { x \in DOMAIN pc[3] : pc[3][x] = "num" } |->
                                Some(NumRate(pc[2]))])

\* C29: a fetch whose records hold a non-numeric rate does not raise, and the
\* Differential rows computed from the stored observations are those computed
\* when the non-numeric samples are nulls.
C29_NonNumericAsNull ==
    (pc[1] = "fetched" /\ \E h \in DOMAIN pc[3] : pc[3][h] # "num") =>
        /\ pc[4] # "TypeError"
        /\ CalculateDiffForSymbol(history, PairsOf(DefaultExchanges))
              = CalculateDiffForSymbol(HistoryWithNulls, PairsOf(DefaultExchanges))


(***************************************************************************)
(* SpecRest: fetch_funding_rates_rest of fetch_FR_history_v2.py, one step  *)
(* per test of the while condition and per session.get request.  In this   *)
(* specification pc is                                                     *)
(*   <<position, exchange, current_dt, end_dt, attempt, requests>>         *)
(* with the datetimes in days and requests the list of                     *)
(* <<current_dt, outcome>> of every request made so far.                   *)
(***************************************************************************)
CHUNK_DAYS == 5
retries    == 3
RestMaxDay == 11
RestDays   == 0 .. RestMaxDay
RestExchanges == {"binance", "bybit", "okx"}

\* what session.get / raise_for_status / response.json() does within
\* timeout=20: an answer, an aiohttp.ClientError or an asyncio.TimeoutError
Outcomes == {"ok", "ClientError", "TimeoutError"}

\* fetch_funding_rates_rest(session, exchange, symbol, trading_pair, start_dt, end_dt)
CallFetchFundingRatesRest(exchange, start_dt, end_dt) ==
    /\ pc[1] = "init"
    /\ pc' = <<"while", exchange, start_dt, end_dt, 0, <<>>>>
    /\ UNCHANGED <<diffVars, planVars, retVars, rankVars>>

\* while current_dt < end_dt: ... else return all_data
WhileTest ==
    /\ pc[1] = "while"
    /\ pc' = IF pc[3] < pc[4] THEN <<"request", pc[2], pc[3], pc[4], 0, pc[6]>>
                              ELSE <<"return", pc[2], pc[3], pc[4], pc[5], pc[6]>>
    /\ UNCHANGED <<diffVars, planVars, retVars, rankVars>>

\* the body of "for attempt in range(retries)" that never leaves the loop:
\* the chunk is requested again after every failure
SessionGetRetryForever(outcome) ==
    /\ pc[1] = "request"
    /\ LET fetch_end == Min({pc[3] + CHUNK_DAYS, pc[4]})
           requests  == Append(pc[6], <<pc[3], outcome>>)
       IN  pc' = IF outcome = "ok"
                 THEN <<IF pc[2] = "okx" THEN "return" ELSE "while",
                        pc[2], fetch_end, pc[4], pc[5], requests>>
                 ELSE <<"request", pc[2], pc[3], pc[4], Min({pc[5] + 1, retries}), requests>>
    /\ UNCHANGED <<diffVars, planVars, retVars, rankVars>>

\* one pass of "for attempt in range(retries)": the request, break on an
\* answer, the next attempt on a caught failure while attempt < retries - 1;
\* once the for loop is left, current_dt = fetch_end and okx breaks
SessionGet(outcome) ==
    /\ pc[1] = "request"
    /\ LET fetch_end == Min({pc[3] + CHUNK_DAYS, pc[4]})
           requests  == Append(pc[6], <<pc[3], outcome>>)
       IN  pc' = IF outcome = "ok" \/ ~(pc[5] < retries - 1)
                 THEN <<IF pc[2] = "okx" THEN "return" ELSE "while",
                        pc[2], fetch_end, pc[4], pc[5], requests>>
                 ELSE <<"request", pc[2], pc[3], pc[4], pc[5] + 1, requests>>
    /\ UNCHANGED <<diffVars, planVars, retVars, rankVars>>

InitRest == InitDiff

NextRest ==
    \/ \E exchange \in RestExchanges, start_dt \in RestDays, end_dt \in RestDays :
          CallFetchFundingRatesRest(exchange, start_dt, end_dt)
    \/ WhileTest
    \/ \E outcome \in Outcomes : SessionGet(outcome)

SpecRest == InitRest /\ [][NextRest]_vars

\* the event loop resumes the coroutine when the awaited request answers,
\* fails or times out after 20 seconds, and when a sleep ends
SpecRestLive ==
    /\ SpecRest
    /\ WF_vars(WhileTest)
    /\ WF_vars(\E outcome \in Outcomes : SessionGet(outcome))

\* the requests made so far for the chunk that starts at day d
RequestsFor(d) == SelectSeq(pc[6], LAMBDA r : r[1] = d)

\* C30: each chunk is requested at most 3 times; an answer or the third
\* failure moves current_dt to the end of the chunk and any other failure
\* leaves it; a call of fetch_funding_rates_rest always returns.
C30_BoundedRetryTerminates ==
    /\ [](pc[1] # "init" => \A d \in RestDays : Len(RequestsFor(d)) <= 3)
    /\ [][pc[1] = "request" =>
            LET last == pc'[6][Len(pc'[6])]
                done == last[2] = "ok" \/ Len(SelectSeq(pc'[6], LAMBDA r : r[1] = pc[3])) = 3
            IN  IF done THEN pc'[1] # "request" /\ pc'[3] = Min({pc[3] + CHUNK_DAYS, pc[4]})
                        ELSE pc'[1] = "request" /\ pc'[3] = pc[3]]_vars
    /\ (pc[1] = "while") ~> (pc[1] = "return")

\* a call over two chunks in which every request failed has returned
C30_Witness ==
    /\ pc[1] = "return"
    /\ Len(pc[6]) = 6
    /\ \A i \in DOMAIN pc[6] : pc[6][i][2] # "ok"
    /\ pc[3] = pc[4]

====
